---- MODULE Spec2Model ----
(***************************************************************************)
(* A model of batchTest.py, the TivoLibre batch regression harness:        *)
(* BatchTester.run stages the decoder JAR in a temporary directory, lists  *)
(* the source files below the test directory, and for every file past the  *)
(* skip count runs decodeFile (stale-output delete, decoder, diff, output  *)
(* delete) and files the path under perfectFiles or filesWithDifferences.  *)
(* Paths are sequences of one-character strings, so that startswith,       *)
(* endswith, str.replace and the sort are computed as Python computes them.*)
(***************************************************************************)
EXTENDS Integers, Sequences, FiniteSets, TLC

\* ---------------------------------------------------------------- bounds
\* The most files the test directory tree holds when the harness starts.
MaxFiles == 3
\* The largest --skip value tried (the smallest is -1: argparse's int accepts it).
MaxSkip == 2
\* File contents are 1..MaxContent; every file present at the start holds 1.
MaxContent == 2

\* ------------------------------------------------------- Python strings
\* ord() of the characters that occur in the modelled paths.
Ord(c) ==
  CASE c = "." -> 46
    [] c = "/" -> 47
    [] c = "T" -> 84
    [] c = "a" -> 97
    [] c = "m" -> 109
    [] c = "r" -> 114
    [] c = "s" -> 115
    [] c = "t" -> 116

\* str.startswith
StartsWith(s, p) == Len(p) <= Len(s) /\ SubSeq(s, 1, Len(p)) = p

\* str.endswith
EndsWith(s, p) == Len(p) <= Len(s) /\ SubSeq(s, Len(s) - Len(p) + 1, Len(s)) = p

\* str.replace(old, new) for a non-empty old: every non-overlapping
\* occurrence, found left to right, is replaced.
RECURSIVE Replace(_, _, _)
Replace(s, old, new) ==
  IF Len(s) < Len(old) THEN s
  ELSE IF StartsWith(s, old)
       THEN new \o Replace(SubSeq(s, Len(old) + 1, Len(s)), old, new)
       ELSE <<Head(s)>> \o Replace(Tail(s), old, new)

\* Python's str ordering: lexicographic by code point, a proper prefix first.
RECURSIVE StrLess(_, _)
StrLess(a, b) ==
  IF a = <<>> THEN b # <<>>
  ELSE IF b = <<>> THEN FALSE
  ELSE IF Head(a) = Head(b) THEN StrLess(Tail(a), Tail(b))
  ELSE Ord(Head(a)) < Ord(Head(b))

RECURSIVE Insert(_, _)
Insert(x, sorted) ==
  IF sorted = <<>> THEN <<x>>
  ELSE IF StrLess(Head(sorted), x)
       THEN <<Head(sorted)>> \o Insert(x, Tail(sorted))
       ELSE <<x>> \o sorted

\* list.sort() on a list of str
RECURSIVE Sort(_)
Sort(s) == IF s = <<>> THEN <<>> ELSE Insert(Head(s), Sort(Tail(s)))

\* os.path.join(path, name)
Join(path, name) == path \o <<"/">> \o name

\* The position of the last "/" of a path, 0 when it has none.
LastSlash(p) ==
  LET at == {i \in 1..Len(p) : p[i] = "/"}
  IN  IF at = {} THEN 0 ELSE CHOOSE i \in at : \A j \in at : j <= i

\* The directory a path lies in, and the name of the file inside it.
DirName(p) == SubSeq(p, 1, LastSlash(p) - 1)
BaseName(p) == SubSeq(p, LastSlash(p) + 1, Len(p))

\* All orders in which the elements of a finite set can be listed.
Perms(S) ==
  {f \in [1..Cardinality(S) -> S] : \A i, j \in 1..Cardinality(S) : f[i] = f[j] => i = j}

\* The elements of a sequence.
Range(s) == {s[i] : i \in 1..Len(s)}

\* --------------------------------------------------- the test directory
\* args.testDir and the one subdirectory below it; its name holds the text
\* of the source extension.
TestDir == <<"t">>
SubDir == <<"t", "/", "s", ".", "T">>
Dirs == {TestDir, SubDir}

\* The files the tree can hold when the harness starts.
TreeFiles ==
  { Join(TestDir, <<"a", ".", "T">>),
    Join(TestDir, <<"a", ".", "r", ".", "T">>),
    Join(TestDir, <<".", "a", ".", "T">>),
    Join(TestDir, <<"a", ".", "T", ".", "T">>),
    Join(TestDir, <<"a", ".", "m", ".", "T">>),
    Join(TestDir, <<"a", ".", "m">>),
    Join(TestDir, <<"a", ".", "r", ".", "m">>),
    Join(SubDir, <<"a", ".", "T">>) }

\* The extensions parseArgs can hand out: the defaults (.TiVo, .mpg and
\* .ref.mpg, written .T, .m and .r.m), -t equal to -s, and -r equal to -t.
ExtT == <<".", "T">>
ExtM == <<".", "m">>
ExtRM == <<".", "r", ".", "m">>
Extensions ==
  { [sourceExtension |-> ExtT, ourExtension |-> ExtM, refExtension |-> ExtRM],
    [sourceExtension |-> ExtT, ourExtension |-> ExtT, refExtension |-> ExtRM],
    [sourceExtension |-> ExtT, ourExtension |-> ExtM, refExtension |-> ExtM] }

SkipValues == (-1)..MaxSkip

\* ------------------------------------------------------------- state
VARIABLES
  args,                  \* self.args: the three extensions and skip
  fs,                    \* the files on disk: path -> [content, by]
  tmpDir,                \* the TemporaryDirectory of run exists
  pc,                    \* where run is
  tivoFiles,             \* testFilesInDir: the sorted source files
  idx,                   \* testFilesInDir: position of the for loop
  numSkipped,
  filesWithDifferences,
  perfectFiles,
  filesTested,           \* self.filesTested
  outputPath,            \* decodeFile's locals
  referencePath,
  filesAreSame,
  exitCode,              \* the exit status of the decoder, which decodeFile drops
  run,                   \* which of the two successive runs this is
  fs0,                   \* the files on disk when this run started
  log,                   \* what this run did, in order
  memo,                  \* what the decoder did for each input so far
  prev                   \* how the first run ended

vars == <<args, fs, tmpDir, pc, tivoFiles, idx, numSkipped, filesWithDifferences,
          perfectFiles, filesTested, outputPath, referencePath, filesAreSame,
          exitCode, run, fs0, log, memo, prev>>

loopVars == <<tivoFiles, idx, numSkipped, filesWithDifferences, perfectFiles>>
fileVars == <<outputPath, referencePath, filesAreSame>>
runVars == <<args, run, fs0, prev>>

\* A file that was on disk before the first run: written by nobody.
Stale == [content |-> 1, by |-> <<0, 0>>]

\* os.path.isfile
IsFile(p) == p \in DOMAIN fs

\* An os.remove that leaves the file where it is.
Removed_Nothing(p) == fs

\* The disk after os.remove(p) of an existing file.
Removed(p) == [q \in DOMAIN fs \ {p} |-> fs[q]]

\* The disk after a file is written at p.
Written(p, file) == [q \in DOMAIN fs \cup {p} |-> IF q = p THEN file ELSE fs[q]]

Init ==
  /\ \E ext \in Extensions, skip \in SkipValues :
       args = [sourceExtension |-> ext.sourceExtension,
               ourExtension |-> ext.ourExtension,
               refExtension |-> ext.refExtension,
               skip |-> skip]
  /\ \E present \in SUBSET TreeFiles :
       /\ Cardinality(present) <= MaxFiles
       /\ fs = [p \in present |-> Stale]
  /\ fs0 = fs
  /\ tmpDir = FALSE
  /\ pc = "start"
  /\ tivoFiles = <<>>
  /\ idx = 1
  /\ numSkipped = 0
  /\ filesWithDifferences = <<>>
  /\ perfectFiles = <<>>
  /\ filesTested = 0
  /\ outputPath = <<>>
  /\ referencePath = <<>>
  /\ filesAreSame = FALSE
  /\ exitCode = 0
  /\ run = 1
  /\ log = <<>>
  /\ memo = [p \in {} |-> 0]
  /\ prev = [pc |-> "none", tivoFiles |-> <<>>, perfectFiles |-> <<>>,
             filesWithDifferences |-> <<>>]

\* One entry of the log: the operation, the source file it was done for,
\* the path it acted on and a number (a count, a content or a return code).
Entry(op, file, path, val) == [op |-> op, file |-> file, path |-> path, val |-> val]

\* ---------------------------------------------------------------- run
\* The with block of run left without the directory being removed.
TmpDirAfterExit_Leaked == tmpDir

\* Line 41: leaving the with block, by its end or by an exception, removes
\* the TemporaryDirectory.
TmpDirAfterExit == FALSE

\* run, lines 41-42: enter the TemporaryDirectory and copy the JAR into
\* it; shutil.copyfile raises when the JAR is not there, and leaving the
\* with block by the exception removes the directory.
CopyJarToTmpDir ==
  /\ pc = "start"
  /\ \E jarThere \in BOOLEAN :
       IF jarThere
       THEN tmpDir' = TRUE /\ pc' = "version"
       ELSE tmpDir' = TmpDirAfterExit /\ pc' = "fatal"
  /\ UNCHANGED <<fs, filesTested, log, memo, exitCode>>
  /\ UNCHANGED <<loopVars, fileVars, runVars>>

\* run, line 43: java -jar ... -v; subprocess.run raises when java cannot
\* be started.
PrintJarVersion ==
  /\ pc = "version"
  /\ \E javaThere \in BOOLEAN :
       IF javaThere
       THEN tmpDir' = tmpDir /\ pc' = "list"
       ELSE tmpDir' = TmpDirAfterExit /\ pc' = "fatal"
  /\ UNCHANGED <<fs, filesTested, log, memo, exitCode>>
  /\ UNCHANGED <<loopVars, fileVars, runVars>>

\* ---------------------------------------------------- listSourceFiles
\* Line 101 without the test for a leading dot.
isTivoFile_NoHiddenCheck(name) == EndsWith(name, args.sourceExtension)

\* Line 101.
isTivoFile(name) ==
  ~StartsWith(name, <<".">>) /\ EndsWith(name, args.sourceExtension)

\* The names os.walk reports as the files of directory d.
FilesIn(d) == {BaseName(p) : p \in {q \in DOMAIN fs : DirName(q) = d}}

\* The inner loop of listSourceFiles over one directory, whose files
\* os.walk reports in the given order.
WalkDir(d, order) ==
  LET names == SelectSeq(order, isTivoFile)
  IN  [i \in 1..Len(names) |-> Join(d, names[i])]

\* os.walk visits the test directory before its subdirectory; the files of
\* each directory come in an order the file system picks.
listSourceFiles(rootOrder, subOrder) ==
  Sort(WalkDir(TestDir, rootOrder) \o WalkDir(SubDir, subOrder))

\* testFilesInDir, lines 75-79.
ListSourceFiles ==
  /\ pc = "list"
  /\ \E rootOrder \in Perms(FilesIn(TestDir)), subOrder \in Perms(FilesIn(SubDir)) :
       tivoFiles' = listSourceFiles(rootOrder, subOrder)
  /\ idx' = 1
  /\ numSkipped' = 0
  /\ filesWithDifferences' = <<>>
  /\ perfectFiles' = <<>>
  /\ pc' = "loop"
  /\ UNCHANGED <<fs, tmpDir, filesTested, log, memo, exitCode>>
  /\ UNCHANGED <<fileVars, runVars>>

\* ----------------------------------------------------- testFilesInDir
\* Line 80 walking the list from its end.
inputPath_FromEnd == tivoFiles[Len(tivoFiles) + 1 - idx]

\* The file the for loop of testFilesInDir is at.
inputPath == tivoFiles[idx]

\* Line 81 with > for >=: one file too many is skipped.
PastSkip_OffByOne == numSkipped > args.skip

\* Line 81: the skip count is used up, so the file is tested.
PastSkip == numSkipped >= args.skip

\* Lines 80-81 and 86-87: the loop passes over a file that is skipped.
SkipFile ==
  /\ pc = "loop"
  /\ idx <= Len(tivoFiles)
  /\ ~PastSkip
  /\ numSkipped' = numSkipped + 1
  /\ idx' = idx + 1
  /\ UNCHANGED <<fs, tmpDir, pc, filesTested, log, memo, exitCode>>
  /\ UNCHANGED <<tivoFiles, filesWithDifferences, perfectFiles>>
  /\ UNCHANGED <<fileVars, runVars>>

\* ---------------------------------------------------------- decodeFile
\* Line 105: the output path of a source file.
OutputPathOf(p) == Replace(p, args.sourceExtension, args.ourExtension)

\* Line 113: the reference path that belongs to an output path.
ReferencePathOf(o) == Replace(o, args.ourExtension, args.refExtension)

\* Lines 107-109 left out: a file already at the output path stays.
DeleteExisting_Skip(p) == fs

\* Lines 107-109: the disk after a file already at the output path is deleted.
DeleteExisting(p) == IF IsFile(p) THEN Removed(p) ELSE fs

\* Lines 104-110: count the file, derive the output path, announce the
\* test and delete a file that is already at the output path.
DecodeBegin ==
  /\ pc = "loop"
  /\ idx <= Len(tivoFiles)
  /\ PastSkip
  /\ filesTested' = filesTested + 1
  /\ outputPath' = OutputPathOf(inputPath)
  /\ fs' = DeleteExisting(outputPath')
  /\ log' = log \o <<Entry("test", inputPath, <<>>, filesTested')>>
                \o (IF fs' # fs THEN <<Entry("rmstale", inputPath, outputPath', 0)>>
                    ELSE <<>>)
  /\ pc' = "decode"
  /\ UNCHANGED <<tmpDir, memo, referencePath, filesAreSame, exitCode>>
  /\ UNCHANGED <<loopVars, runVars>>

\* What the decoder reads: the input file as it is on disk.
InputState(p) == IF IsFile(p) THEN <<fs[p]>> ELSE <<>>

\* The exit statuses the decoder can end with: success or failure.
ExitCodes == {0, 1}

\* Lines 111-112: the decoder runs to completion and ends with some exit
\* status, which subprocess.run returns and decodeFile drops. It writes a
\* file of some content at the output path or writes nothing (0); it
\* cannot create a file in a directory that does not exist, and it is
\* deterministic: for an input it has seen in the same state it does what
\* it did before.
RunDecoder ==
  /\ pc = "decode"
  /\ \E outcome \in 0..MaxContent :
       /\ DirName(outputPath) \notin Dirs => outcome = 0
       /\ (inputPath \in DOMAIN memo /\ memo[inputPath].src = InputState(inputPath))
            => outcome = memo[inputPath].out
       /\ fs' = IF outcome = 0 THEN fs
                ELSE Written(outputPath, [content |-> outcome, by |-> <<run, filesTested>>])
       /\ memo' = [q \in DOMAIN memo \cup {inputPath} |->
                     IF q = inputPath
                     THEN [src |-> InputState(inputPath), out |-> outcome]
                     ELSE memo[q]]
       /\ log' = Append(log, Entry("decode", inputPath, outputPath, outcome))
  /\ exitCode' \in ExitCodes
  /\ pc' = "compare"
  /\ UNCHANGED <<tmpDir, filesTested>>
  /\ UNCHANGED <<loopVars, fileVars, runVars>>

\* The return code of diff: 0 for equal files, 1 for different files, 2
\* when one of them cannot be read.
DiffReturnCode(p, q) ==
  IF ~IsFile(p) \/ ~IsFile(q) THEN 2
  ELSE IF fs[p].content = fs[q].content THEN 0 ELSE 1

\* Lines 118-123 with the decoder's exit status taken into account.
FilesAreSame_AndDecoderSucceeded(returncode) == returncode = 0 /\ exitCode = 0

\* Lines 117-123: filesAreSame from the return code of diff alone.
FilesAreSame(returncode) == ~(returncode # 0)

\* Lines 113-123: derive the reference path, run diff, set filesAreSame.
Compare ==
  /\ pc = "compare"
  /\ referencePath' = ReferencePathOf(outputPath)
  /\ filesAreSame' = FilesAreSame(DiffReturnCode(outputPath, referencePath'))
  /\ log' = Append(log, Entry("diff", inputPath, outputPath,
                              DiffReturnCode(outputPath, referencePath')))
  /\ pc' = "cleanup"
  /\ UNCHANGED <<fs, tmpDir, filesTested, memo, outputPath, exitCode>>
  /\ UNCHANGED <<loopVars, runVars>>

\* Lines 125-127 and 82-85: os.remove of the output file, then the path
\* is appended to one of the two lists. os.remove raises
\* FileNotFoundError when the file is not there; nothing catches it, so
\* it leaves decodeFile, testFilesInDir and the with block of run.
Cleanup ==
  /\ pc = "cleanup"
  /\ IF IsFile(outputPath)
     THEN /\ fs' = Removed(outputPath)
          /\ IF ~filesAreSame
             THEN /\ filesWithDifferences' = Append(filesWithDifferences, inputPath)
                  /\ perfectFiles' = perfectFiles
             ELSE /\ perfectFiles' = Append(perfectFiles, inputPath)
                  /\ filesWithDifferences' = filesWithDifferences
          /\ log' = log \o << Entry("remove", inputPath, outputPath, 0),
                               Entry("append", inputPath, <<>>,
                                     IF filesAreSame THEN 1 ELSE 0) >>
          /\ idx' = idx + 1
          /\ pc' = "loop"
          /\ tmpDir' = tmpDir
     ELSE /\ pc' = "crashed"
          /\ tmpDir' = TmpDirAfterExit
          /\ UNCHANGED <<fs, log, idx, filesWithDifferences, perfectFiles>>
  /\ exitCode' = 0
  /\ UNCHANGED <<filesTested, memo, tivoFiles, numSkipped>>
  /\ UNCHANGED <<fileVars, runVars>>

\* -------------------------------------------------------- printResults
\* Lines 130 and 139 left out: the header is printed for an empty list too.
Section_AlwaysHeader(name, files) ==
  <<Entry(name, <<>>, <<>>, Len(files))>>
  \o [i \in 1..Len(files) |-> Entry("line", files[i], <<>>, i)]

\* The lines printResults prints for one list: nothing for an empty list,
\* else the header with the count and one line per file.
Section(name, files) ==
  IF files = <<>> THEN <<>>
  ELSE <<Entry(name, <<>>, <<>>, Len(files))>>
       \o [i \in 1..Len(files) |-> Entry("line", files[i], <<>>, i)]

\* Line 89 with lines 129-146, and the end of the with block of run.
PrintResults ==
  /\ pc = "loop"
  /\ ~(idx <= Len(tivoFiles))
  /\ log' = log \o Section("perfect", perfectFiles)
                \o Section("differing", filesWithDifferences)
  /\ pc' = "done"
  /\ tmpDir' = TmpDirAfterExit
  /\ UNCHANGED <<fs, filesTested, memo, exitCode>>
  /\ UNCHANGED <<loopVars, fileVars, runVars>>

\* ------------------------------------------------------- a second run
\* The harness is started once more with the same arguments on the tree
\* as the first run left it; a new process starts with a fresh BatchTester.
Rerun ==
  /\ pc \in {"done", "crashed"}
  /\ run = 1
  /\ run' = 2
  /\ prev' = [pc |-> pc, tivoFiles |-> tivoFiles, perfectFiles |-> perfectFiles,
              filesWithDifferences |-> filesWithDifferences]
  /\ fs0' = fs
  /\ pc' = "start"
  /\ tivoFiles' = <<>>
  /\ idx' = 1
  /\ numSkipped' = 0
  /\ filesWithDifferences' = <<>>
  /\ perfectFiles' = <<>>
  /\ filesTested' = 0
  /\ outputPath' = <<>>
  /\ referencePath' = <<>>
  /\ filesAreSame' = FALSE
  /\ log' = <<>>
  /\ UNCHANGED <<args, fs, tmpDir, memo, exitCode>>

Next ==
  \/ CopyJarToTmpDir
  \/ PrintJarVersion
  \/ ListSourceFiles
  \/ SkipFile
  \/ DecodeBegin
  \/ RunDecoder
  \/ Compare
  \/ Cleanup
  \/ PrintResults
  \/ Rerun

Spec == Init /\ [][Next]_vars

\* =================================================================
\* The claims
\* =================================================================
\* The positions of the log that hold the operation op.
LogOps(op) == {i \in 1..Len(log) : log[i].op = op}

\* The run is over: printResults was reached or an exception ended it.
Finished == pc \in {"done", "crashed"}

\* The number of files the for loop skips: skip, but at least 0 and at
\* most the number of files discovered.
SkippedCount ==
  IF args.skip < 0 THEN 0
  ELSE IF args.skip > Len(tivoFiles) THEN Len(tivoFiles) ELSE args.skip

\* How often a path occurs in a list.
Count(list, p) == Cardinality({i \in 1..Len(list) : list[i] = p})

\* C1: when the decoder creates no file at the output path of a tested
\* file, the per-file cycle ends without a crash and with the file in
\* filesWithDifferences.
C1_NoOutputIsDifferent ==
  \A i \in LogOps("decode") :
    (log[i].val = 0 /\ ~(pc \in {"compare", "cleanup"} /\ inputPath = log[i].file))
      => (pc # "crashed" /\ log[i].file \in Range(filesWithDifferences))

\* C2 as stated: at printResults the two lists together hold
\* filesDiscovered - skipCount files, and every file past the skip count is
\* in exactly one of them.
C2_Original ==
  pc = "done" =>
    /\ Len(perfectFiles) + Len(filesWithDifferences) = Len(tivoFiles) - args.skip
    /\ \A i \in 1..Len(tivoFiles) :
         i > args.skip =>
           Count(perfectFiles, tivoFiles[i]) + Count(filesWithDifferences, tivoFiles[i]) = 1

\* C2 amended: at printResults the two lists together hold filesDiscovered
\* minus the number of files actually skipped, which is skipCount limited
\* to the range 0..filesDiscovered, and every file past the skip count is
\* in exactly one of the lists, once.
C2_Partition ==
  pc = "done" =>
    /\ Len(perfectFiles) + Len(filesWithDifferences) = Len(tivoFiles) - SkippedCount
    /\ \A i \in 1..Len(tivoFiles) :
         i > args.skip =>
           Count(perfectFiles, tivoFiles[i]) + Count(filesWithDifferences, tivoFiles[i]) = 1

\* printResults is reached with the first of three files skipped and the
\* other two tested and filed.
C2_Witness ==
  /\ pc = "done"
  /\ args.skip = 1
  /\ Len(tivoFiles) = 3
  /\ filesWithDifferences = <<tivoFiles[2], tivoFiles[3]>>
  /\ perfectFiles = <<>>

\* C3: no per-file failure stops the batch: the run never ends in an
\* exception raised by decodeFile, so printResults stays reachable.
C3_BatchNeverStopped == pc # "crashed"

\* C4 as stated: when the run is over, no file is at the output path of
\* any discovered source file.
C4_Original ==
  Finished => \A i \in 1..Len(tivoFiles) : ~IsFile(OutputPathOf(tivoFiles[i]))

\* C4 amended: when the run is over (normally or by the exception of a
\* per-file failure), no file is at the output path of any source file
\* for which decodeFile was called, whatever was at that path when the run
\* started; the output paths of skipped files are not cleaned.
C4_TestedOutputsGone ==
  Finished => \A i \in LogOps("test") : ~IsFile(OutputPathOf(log[i].file))

C4_Witness ==
  /\ pc = "done"
  /\ \E i \in LogOps("decode") : log[i].val # 0 /\ log[i].path \in DOMAIN fs0

\* C5: when the run is over, every file that was compared is in
\* perfectFiles exactly if diff returned 0 and in filesWithDifferences
\* exactly if it did not.
C5_ListMatchesDiff ==
  Finished =>
    \A i \in LogOps("diff") :
      /\ log[i].file \in Range(perfectFiles) <=> log[i].val = 0
      /\ log[i].file \in Range(filesWithDifferences) <=> log[i].val # 0

\* C6: when the run is over, none of the first skip files of the sorted
\* list was decoded, compared, cleaned or filed in a list, and every
\* later file was decoded once and compared once.
C6_SkipExactlyFirstN ==
  Finished =>
    \A i \in 1..Len(tivoFiles) :
      IF i <= args.skip
      THEN /\ \A k \in 1..Len(log) : log[k].file # tivoFiles[i]
           /\ tivoFiles[i] \notin Range(perfectFiles) \cup Range(filesWithDifferences)
      ELSE /\ Cardinality({k \in LogOps("decode") : log[k].file = tivoFiles[i]}) = 1
           /\ Cardinality({k \in LogOps("diff") : log[k].file = tivoFiles[i]}) = 1

\* The reference paths of the discovered source files.
ReferencePaths == {ReferencePathOf(OutputPathOf(tivoFiles[i])) : i \in 1..Len(tivoFiles)}

\* C7: every path the harness removes or hands to the decoder as its
\* output is neither a discovered source file nor the reference path of
\* one.
C7_SourcesAndReferencesUntouched ==
  \A k \in LogOps("rmstale") \cup LogOps("decode") \cup LogOps("remove") :
    /\ log[k].path \notin Range(tivoFiles)
    /\ log[k].path \notin ReferencePaths

\* C8: when diff is about to run, a file at the output path was written by
\* the decoder invocation of this very cycle, and a file is only found
\* identical to its reference when that invocation wrote it; a file that
\* was at the output path before the cycle is gone by then.
C8_ComparedFileIsFresh ==
  /\ (pc = "compare" /\ IsFile(outputPath)) => fs[outputPath].by = <<run, filesTested>>
  /\ (pc = "cleanup" /\ filesAreSame) =>
       \E k \in LogOps("decode") : log[k].file = inputPath /\ log[k].val # 0

\* A stale output file equal to the reference was there, the decoder wrote
\* nothing, and the comparison found the files different.
C8_Witness ==
  /\ pc = "cleanup"
  /\ outputPath \in DOMAIN fs0
  /\ referencePath \in DOMAIN fs
  /\ fs0[outputPath].content = fs[referencePath].content
  /\ \E k \in LogOps("decode") : log[k].file = inputPath /\ log[k].val = 0
  /\ ~filesAreSame

\* a comes before b in lexicographic order by code point.
LexBefore(a, b) ==
  \E k \in 1..(Len(a) + 1) :
    /\ k <= Len(b)
    /\ \A j \in 1..(k - 1) : a[j] = b[j]
    /\ k = Len(a) + 1 \/ Ord(a[k]) < Ord(b[k])

\* The files of the tree, as the run found it, that are source files: the
\* name does not start with a dot and ends with the source extension.
SourceFilesAtStart ==
  {p \in DOMAIN fs0 :
     /\ DirName(p) \in Dirs
     /\ BaseName(p)[1] # "."
     /\ EndsWith(BaseName(p), args.sourceExtension)}

\* C9: the list listSourceFiles returned holds exactly the non-hidden
\* files of the tree whose name ends with the source extension, each once,
\* in ascending lexicographic order of the full path, and nothing the run
\* does is done for a hidden file.
C9_DiscoveryExactAndSorted ==
  pc \in {"loop", "decode", "compare", "cleanup", "done", "crashed"} =>
    /\ Range(tivoFiles) = SourceFilesAtStart
    /\ Len(tivoFiles) = Cardinality(SourceFilesAtStart)
    /\ \A i, j \in 1..Len(tivoFiles) : i < j => LexBefore(tivoFiles[i], tivoFiles[j])
    /\ \A k \in 1..Len(log) : log[k].file # <<>> => BaseName(log[k].file)[1] # "."

\* A hidden source file lies beside two files that were listed and tested.
C9_Witness ==
  /\ pc = "done"
  /\ Join(TestDir, <<".", "a", ".", "T">>) \in DOMAIN fs0
  /\ Len(tivoFiles) = 2
  /\ tivoFiles[2] = Join(SubDir, <<"a", ".", "T">>)
  /\ Cardinality(LogOps("test")) = 2

\* C10: a second run that reaches printResults after a first run that
\* reached it finds the same source files in the same order and files
\* them in the same two lists.
C10_SecondRunSame ==
  (run = 2 /\ pc = "done" /\ prev.pc = "done") =>
    /\ tivoFiles = prev.tivoFiles
    /\ perfectFiles = prev.perfectFiles
    /\ filesWithDifferences = prev.filesWithDifferences

\* s with its trailing old replaced by new and nothing else changed.
ReplaceSuffix(s, old, new) == SubSeq(s, 1, Len(s) - Len(old)) \o new

\* C11: the output path decodeFile derives is the source path with only
\* its trailing source extension replaced by the output extension, and the
\* reference path is the output path with only its trailing output
\* extension replaced by the reference extension.
C11_OnlyTrailingExtensionReplaced ==
  /\ pc \in {"decode", "compare", "cleanup"} =>
       outputPath = ReplaceSuffix(inputPath, args.sourceExtension, args.ourExtension)
  /\ pc = "cleanup" =>
       referencePath = ReplaceSuffix(outputPath, args.ourExtension, args.refExtension)

\* C12: two different discovered source files never have the same output
\* path.
C12_OutputPathsInjective ==
  \A i, j \in 1..Len(tivoFiles) :
    i # j => OutputPathOf(tivoFiles[i]) # OutputPathOf(tivoFiles[j])

\* The number of "test" entries among the first k entries of the log.
TestsUpTo(k) == Cardinality({j \in LogOps("test") : j <= k})

\* Entry k of the log comes right after an entry with one of the given
\* operations for the same source file.
Follows(k, ops) == k > 1 /\ log[k - 1].op \in ops /\ log[k - 1].file = log[k].file

\* C13: the tested files are taken one at a time in the order of the
\* sorted list, starting after the skipped ones, and each cycle runs
\* announce, stale-output delete (when there is one), decoder, comparison,
\* output delete, outcome appended; the next file is only announced after
\* the outcome of the one before was appended.
C13_SequentialInOrder ==
  \A k \in 1..Len(log) :
    /\ log[k].op = "test" =>
         /\ k = 1 \/ log[k - 1].op = "append"
         /\ log[k].val = TestsUpTo(k)
         /\ SkippedCount + log[k].val <= Len(tivoFiles)
         /\ log[k].file = tivoFiles[SkippedCount + log[k].val]
    /\ log[k].op = "rmstale" => Follows(k, {"test"})
    /\ log[k].op = "decode" => Follows(k, {"test", "rmstale"})
    /\ log[k].op = "diff" => Follows(k, {"decode"})
    /\ log[k].op = "remove" => Follows(k, {"diff"})
    /\ log[k].op = "append" => Follows(k, {"remove"})

\* Two files were tested one after the other, the second after a stale
\* output file was deleted.
C13_Witness ==
  /\ pc = "done"
  /\ Cardinality(LogOps("test")) = 2
  /\ \E k \in LogOps("rmstale") : log[k].file = tivoFiles[Len(tivoFiles)]

\* The files on disk that a decoder invocation of this run wrote.
DecoderFiles == {p \in DOMAIN fs : fs[p].by[1] = run}

\* C14: at most one file written by a decoder invocation of this run is on
\* disk, and none is when the decoder is about to be invoked.
C14_AtMostOneDecodedFile ==
  /\ Cardinality(DecoderFiles) <= 1
  /\ pc \in {"loop", "decode"} => DecoderFiles = {}

\* The output of the second tested file is on disk, the first file was
\* found different and its output is gone.
C14_Witness ==
  /\ pc = "compare"
  /\ filesTested = 2
  /\ IsFile(outputPath)
  /\ Len(filesWithDifferences) = 1
  /\ ~IsFile(OutputPathOf(filesWithDifferences[1]))

\* C15: filesTested counts the announced tests, the k-th announced test
\* carries the number k and is for a file past the skip count, when the run
\* is over filesTested is the number of files past the skip count, and with
\* skip >= filesDiscovered it is 0 and both lists are empty.
C15_FilesTestedCountsNonSkipped ==
  /\ filesTested = Cardinality(LogOps("test"))
  /\ \A k \in LogOps("test") :
       /\ log[k].val = TestsUpTo(k)
       /\ \E i \in 1..Len(tivoFiles) : i > args.skip /\ tivoFiles[i] = log[k].file
       /\ \A j \in LogOps("append") : log[j].file = log[k].file => k < j
  /\ Finished => filesTested = Len(tivoFiles) - SkippedCount
  /\ (Finished /\ args.skip >= Len(tivoFiles)) =>
       filesTested = 0 /\ perfectFiles = <<>> /\ filesWithDifferences = <<>>

\* C16: the outcome of a file is the result of diff on the files on disk
\* and nothing else, whatever exit status the decoder ended with: after the
\* comparison filesAreSame says whether diff returns 0 for the output and
\* reference paths, and a file is appended to perfectFiles exactly if its
\* diff returned 0.
C16_OutcomeIgnoresExitStatus ==
  /\ pc = "cleanup" => (filesAreSame <=> DiffReturnCode(outputPath, referencePath) = 0)
  /\ \A k \in LogOps("append") :
       /\ Follows(k - 1, {"diff"})
       /\ log[k].val = 1 <=> log[k - 2].val = 0
       /\ log[k].file \in Range(perfectFiles) <=> log[k - 2].val = 0
       /\ log[k].file \in Range(filesWithDifferences) <=> log[k - 2].val # 0

\* The decoder ended with a failure status and the file is found identical.
C16_Witness ==
  /\ pc = "cleanup"
  /\ exitCode = 1
  /\ filesAreSame

\* C17: the temporary directory exists while run works inside the with
\* block and is gone once run has returned or was left by an exception.
C17_TmpDirRemovedOnExit ==
  /\ pc \in {"version", "list", "loop", "decode", "compare", "cleanup"} => tmpDir
  /\ pc \in {"done", "crashed", "fatal"} => ~tmpDir

\* run was left by the exception of the cleanup os.remove.
C17_Witness == pc = "crashed" /\ filesTested = 2 /\ ~tmpDir

\* The position of a path in the sorted discovery list.
Pos(p) == CHOOSE i \in 1..Len(tivoFiles) : tivoFiles[i] = p

\* The list holds discovered files in the order of the discovery list.
InDiscoveryOrder(list) ==
  /\ Range(list) \subseteq Range(tivoFiles)
  /\ \A i, j \in 1..Len(list) : i < j => Pos(list[i]) < Pos(list[j])

\* The files of the "line" entries of the log, in order.
PrintedFiles ==
  LET IsLine(e) == e.op = "line"
      lines == SelectSeq(log, IsLine)
  IN  [i \in 1..Len(lines) |-> lines[i].file]

\* C18: each result list holds discovered files in discovery order, and
\* the report prints the header of a list exactly if the list is not empty
\* and then the files of the list in order.
C18_ReportInOrder ==
  /\ InDiscoveryOrder(perfectFiles)
  /\ InDiscoveryOrder(filesWithDifferences)
  /\ pc = "done" =>
       /\ Cardinality(LogOps("perfect")) = (IF perfectFiles = <<>> THEN 0 ELSE 1)
       /\ Cardinality(LogOps("differing")) = (IF filesWithDifferences = <<>> THEN 0 ELSE 1)
       /\ PrintedFiles = perfectFiles \o filesWithDifferences

\* A report with one section of two files and the other section left out.
C18_Witness ==
  /\ pc = "done"
  /\ Len(filesWithDifferences) = 2
  /\ perfectFiles = <<>>
  /\ Cardinality(LogOps("differing")) = 1
  /\ LogOps("perfect") = {}

====
